---------------------------- MODULE Spec2Model ----------------------------
(***************************************************************************)
(* Model of the transaction codec and signing protocol of the Arch         *)
(* TypeScript SDK (src/src/index.ts, src/src/types.ts).                    *)
(*                                                                         *)
(* Bytes are naturals in 0..255, byte arrays and number[] are sequences,   *)
(* strings are sequences of character codes.  A Pubkey is a record with    *)
(* its `bytes` field, as in types.ts.                                      *)
(***************************************************************************)
EXTENDS Integers, Sequences, FiniteSets, TLC

(***************************************************************************)
(* Bounds of the model.                                                    *)
(***************************************************************************)
MaxInstructions == 2
MaxKeys == 2
MaxBatch == 2
MaxSignatures == 2
MaxCalls == 2

(***************************************************************************)
(* types.ts: Pubkey                                                        *)
(***************************************************************************)
PUBKEY_LEN == 32

Fill(n, b) == [i \in 1..n |-> b]

\* the length check as a lower bound only
PubkeyOkAtLeast(bytes) == Len(bytes) >= PUBKEY_LEN

\* new Pubkey(bytes): throws unless bytes.length === 32
PubkeyOk(bytes) == Len(bytes) = PUBKEY_LEN

Pubkey(bytes) == [bytes |-> bytes]

\* Pubkey.systemProgram(): new Uint8Array(32) with bytes[31] = 1
systemProgram == Pubkey([i \in 1..PUBKEY_LEN |-> IF i = PUBKEY_LEN THEN 1 ELSE 0])

(***************************************************************************)
(* Little-endian fixed-width integers, as DataView.setUint32(.., true) and *)
(* DataView.setBigUint64(.., true) write them: byte i is                   *)
(* floor(value / 256^i) mod 256.                                           *)
(***************************************************************************)
RECURSIVE LittleEndian(_, _)
LittleEndian(value, width) ==
    IF width = 0 THEN <<>>
    ELSE <<value % 256>> \o LittleEndian(value \div 256, width - 1)

\* Array.from(x): a new array holding the elements of x in order
ArrayFrom(x) == [k \in 1..Len(x) |-> x[k]]

\* the width, in bytes, of the data length that encodeMessage writes
ENCODE_LEN_WIDTH == 8

(***************************************************************************)
(* index.ts: encodeMessage                                                 *)
(***************************************************************************)
\* the two flags written in the other order
RECURSIVE EncodeAccountsSwapped(_, _)
EncodeAccountsSwapped(accounts, i) ==
    IF i > Len(accounts) THEN <<>>
    ELSE accounts[i].pubkey.bytes
         \o <<IF accounts[i].is_writable THEN 1 ELSE 0>>
         \o <<IF accounts[i].is_signer THEN 1 ELSE 0>>
         \o EncodeAccountsSwapped(accounts, i + 1)

RECURSIVE EncodeAccountsFrom(_, _)
EncodeAccountsFrom(accounts, i) ==
    IF i > Len(accounts) THEN <<>>
    ELSE accounts[i].pubkey.bytes
         \o <<IF accounts[i].is_signer THEN 1 ELSE 0>>
         \o <<IF accounts[i].is_writable THEN 1 ELSE 0>>
         \o EncodeAccountsFrom(accounts, i + 1)

\* a 4-byte length, as serializeMessage writes it
EncodeDataLengthU32(data) == LittleEndian(Len(data), 4)

EncodeDataLength(data) == LittleEndian(Len(data), ENCODE_LEN_WIDTH)

EncodeOneInstruction(instruction) ==
    instruction.program_id.bytes
    \o <<Len(instruction.accounts)>>
    \o EncodeAccountsFrom(instruction.accounts, 1)
    \o EncodeDataLength(instruction.data)
    \o instruction.data

\* the instructions encoded in a canonical order: by data length, then by
\* position
RECURSIVE EncodeInstructionsSorted(_, _)
EncodeInstructionsSorted(instructions, i) ==
    IF i > Len(instructions) THEN <<>>
    ELSE LET Before(q, p) ==
                \/ Len(instructions[q].data) < Len(instructions[p].data)
                \/ (Len(instructions[q].data) = Len(instructions[p].data) /\ q < p)
             Rank(p) == 1 + Cardinality({q \in 1..Len(instructions) : Before(q, p)})
             next == CHOOSE p \in 1..Len(instructions) : Rank(p) = i
         IN  EncodeOneInstruction(instructions[next])
             \o EncodeInstructionsSorted(instructions, i + 1)

RECURSIVE EncodeInstructionsFrom(_, _)
EncodeInstructionsFrom(instructions, i) ==
    IF i > Len(instructions) THEN <<>>
    ELSE EncodeOneInstruction(instructions[i])
         \o EncodeInstructionsFrom(instructions, i + 1)

\* message.signers.forEach(...) over signers lo..hi, by halves
RECURSIVE EncodeSignersRange(_, _, _)
EncodeSignersRange(signers, lo, hi) ==
    IF lo > hi THEN <<>>
    ELSE IF lo = hi THEN ArrayFrom(signers[lo].bytes)
    ELSE LET mid == (lo + hi) \div 2
         IN  EncodeSignersRange(signers, lo, mid) \o EncodeSignersRange(signers, mid + 1, hi)

EncodeSignersFrom(signers, i) == EncodeSignersRange(signers, i, Len(signers))

encodeMessage(message) ==
    <<Len(message.signers)>>
    \o EncodeSignersFrom(message.signers, 1)
    \o <<Len(message.instructions)>>
    \o EncodeInstructionsFrom(message.instructions, 1)

(***************************************************************************)
(* index.ts: serializePubkey, serializeAccountMeta, serializeInstruction    *)
(***************************************************************************)
serializePubkey(pubkey) == ArrayFrom(pubkey.bytes)

\* the two flags written before the key
serializeAccountMetaFlagsFirst(accountMeta) ==
    <<IF accountMeta.is_signer THEN 1 ELSE 0>>
    \o <<IF accountMeta.is_writable THEN 1 ELSE 0>>
    \o serializePubkey(accountMeta.pubkey)

serializeAccountMeta(accountMeta) ==
    serializePubkey(accountMeta.pubkey)
    \o <<IF accountMeta.is_signer THEN 1 ELSE 0>>
    \o <<IF accountMeta.is_writable THEN 1 ELSE 0>>

\* for (const account of instruction.accounts) serialized.push(...)
RECURSIVE SerializeAccountMetasFrom(_, _)
SerializeAccountMetasFrom(accounts, i) ==
    IF i > Len(accounts) THEN <<>>
    ELSE serializeAccountMeta(accounts[i]) \o SerializeAccountMetasFrom(accounts, i + 1)

\* setBigUint64(0, BigInt(instruction.data.length), true) into 8 bytes
SerializeInstructionDataLength(data) == LittleEndian(Len(data), 8)

serializeInstruction(instruction) ==
    serializePubkey(instruction.program_id)
    \o <<Len(instruction.accounts)>>
    \o SerializeAccountMetasFrom(instruction.accounts, 1)
    \o SerializeInstructionDataLength(instruction.data)
    \o instruction.data

(***************************************************************************)
(* index.ts: serializeMessage                                               *)
(***************************************************************************)
RECURSIVE SerializeMessageAccountsFrom(_, _)
SerializeMessageAccountsFrom(accounts, i) ==
    IF i > Len(accounts) THEN <<>>
    ELSE ArrayFrom(accounts[i].pubkey.bytes)
         \o <<IF accounts[i].is_signer THEN 1 ELSE 0>>
         \o <<IF accounts[i].is_writable THEN 1 ELSE 0>>
         \o SerializeMessageAccountsFrom(accounts, i + 1)

\* setUint32(0, inst.data.length, true) into a Uint8Array(4)
SerializeMessageDataLength(data) == LittleEndian(Len(data), 4)

SerializeMessageInstruction(inst) ==
    ArrayFrom(inst.program_id.bytes)
    \o <<Len(inst.accounts)>>
    \o SerializeMessageAccountsFrom(inst.accounts, 1)
    \o SerializeMessageDataLength(inst.data)
    \o inst.data

RECURSIVE SerializeMessageInstructionsFrom(_, _)
SerializeMessageInstructionsFrom(instructions, i) ==
    IF i > Len(instructions) THEN <<>>
    ELSE SerializeMessageInstruction(instructions[i])
         \o SerializeMessageInstructionsFrom(instructions, i + 1)

\* message.signers.forEach(...) over signers lo..hi, by halves
RECURSIVE SerializeMessageSignersRange(_, _, _)
SerializeMessageSignersRange(signers, lo, hi) ==
    IF lo > hi THEN <<>>
    ELSE IF lo = hi THEN ArrayFrom(signers[lo].bytes)
    ELSE LET mid == (lo + hi) \div 2
         IN  SerializeMessageSignersRange(signers, lo, mid)
             \o SerializeMessageSignersRange(signers, mid + 1, hi)

SerializeMessageSignersFrom(signers, i) ==
    SerializeMessageSignersRange(signers, i, Len(signers))

serializeMessage(message) ==
    <<Len(message.signers)>>
    \o SerializeMessageSignersFrom(message.signers, 1)
    \o <<Len(message.instructions)>>
    \o SerializeMessageInstructionsFrom(message.instructions, 1)

(***************************************************************************)
(* @noble/hashes/utils: bytesToHex, hexToBytes, utf8ToBytes.  Text is a    *)
(* sequence of character codes.                                            *)
(***************************************************************************)
\* "0123456789abcdef"
HexDigits == <<48, 49, 50, 51, 52, 53, 54, 55, 56, 57, 97, 98, 99, 100, 101, 102>>

\* bytesToHex: two lowercase digits per byte, high nibble first
bytesToHex(bytes) ==
    [i \in 1..(2 * Len(bytes)) |->
        IF i % 2 = 1 THEN HexDigits[(bytes[(i + 1) \div 2] \div 16) + 1]
        ELSE HexDigits[(bytes[i \div 2] % 16) + 1]]

\* the value of one hex digit, -1 for any other character
HexValue(c) ==
    IF c >= 48 /\ c <= 57 THEN c - 48
    ELSE IF c >= 97 /\ c <= 102 THEN c - 87
    ELSE IF c >= 65 /\ c <= 70 THEN c - 55
    ELSE -1

\* hexToBytes throws on an odd length and on a character that is no hex digit
HexToBytesOk(hex) ==
    /\ Len(hex) % 2 = 0
    /\ \A i \in 1..Len(hex) : HexValue(hex[i]) >= 0

hexToBytes(hex) ==
    [i \in 1..(Len(hex) \div 2) |->
        HexValue(hex[2 * i - 1]) * 16 + HexValue(hex[2 * i])]

\* Buffer.from(bytes).toString('base64')
Base64Char(v) ==
    IF v < 26 THEN 65 + v
    ELSE IF v < 52 THEN 97 + (v - 26)
    ELSE IF v < 62 THEN 48 + (v - 52)
    ELSE IF v = 62 THEN 43
    ELSE 47

base64(bytes) ==
    [p \in 1..(4 * ((Len(bytes) + 2) \div 3)) |->
        LET g == (p - 1) \div 4
            idx == (p - 1) % 4
            b0 == bytes[3 * g + 1]
            b1 == IF 3 * g + 2 <= Len(bytes) THEN bytes[3 * g + 2] ELSE 0
            b2 == IF 3 * g + 3 <= Len(bytes) THEN bytes[3 * g + 3] ELSE 0
        IN  IF idx = 0 THEN Base64Char(b0 \div 4)
            ELSE IF idx = 1 THEN Base64Char((b0 % 4) * 16 + (b1 \div 16))
            ELSE IF idx = 2
                 THEN (IF 3 * g + 2 > Len(bytes) THEN 61
                       ELSE Base64Char((b1 % 16) * 4 + (b2 \div 64)))
            ELSE (IF 3 * g + 3 > Len(bytes) THEN 61 ELSE Base64Char(b2 % 64))]

\* utf8ToBytes: one byte below U+0080, two bytes below U+0800
RECURSIVE Utf8Range(_, _, _)
Utf8Range(text, lo, hi) ==
    IF lo > hi THEN <<>>
    ELSE IF lo = hi
         THEN (IF text[lo] < 128 THEN <<text[lo]>>
               ELSE <<192 + (text[lo] \div 64), 128 + (text[lo] % 64)>>)
    ELSE LET mid == (lo + hi) \div 2 IN
         Utf8Range(text, lo, mid) \o Utf8Range(text, mid + 1, hi)

utf8ToBytes(text) == Utf8Range(text, 1, Len(text))

(***************************************************************************)
(* types.ts: Pubkey.fromString, Pubkey.toString, Pubkey.systemProgram.     *)
(* Buffer.from(s, 'hex') decodes two characters at a time and stops at the *)
(* first pair that is no hex number; a last character without a partner is *)
(* left out.                                                               *)
(***************************************************************************)
\* the number of leading pairs of s that are hex
RECURSIVE HexPairsFrom(_, _)
HexPairsFrom(s, i) ==
    IF 2 * i > Len(s) THEN 0
    ELSE IF HexValue(s[2 * i - 1]) < 0 \/ HexValue(s[2 * i]) < 0 THEN 0
    ELSE 1 + HexPairsFrom(s, i + 1)

\* Buffer.from(s, 'hex')
BufferFromHex(s) ==
    [i \in 1..HexPairsFrom(s, 1) |-> HexValue(s[2 * i - 1]) * 16 + HexValue(s[2 * i])]

\* Pubkey.fromString(s) throws unless the decoded buffer has 32 bytes
FromStringOk(s) == Len(BufferFromHex(s)) = PUBKEY_LEN

\* Pubkey.fromString(s)
fromString(s) == Pubkey(BufferFromHex(s))

\* the text in base64
toStringBase64(pubkey) == base64(pubkey.bytes)

\* Pubkey.toString(): Buffer.from(this.bytes).toString('hex')
toString(pubkey) == bytesToHex(pubkey.bytes)

NoPubkey == Pubkey(<<>>)

\* systemProgram() handing out one array kept between calls
SystemProgramCached(heap) ==
    IF heap = <<>> THEN <<systemProgram.bytes>> ELSE heap

\* systemProgram(): a new Uint8Array(32) on every call; the arrays handed
\* out so far are the heap, the one returned is its last
SystemProgramAlloc(heap) == Append(heap, systemProgram.bytes)

(***************************************************************************)
(* @noble/hashes/sha256.  The interface is kept: a byte sequence in, 32    *)
(* bytes out, every output byte depending on every input byte and on its   *)
(* position; a string argument is UTF-8 encoded first (sha256Text).  The   *)
(* compression function is replaced by two running sums.                   *)
(***************************************************************************)
HASH_LEN == 32
HASH_MOD == 65521

\* the sum over positions lo..hi of weight * (byte + 1), by halves
RECURSIVE HashSum(_, _, _, _)
HashSum(bytes, lo, hi, weighted) ==
    IF lo > hi THEN 0
    ELSE IF lo = hi
         THEN ((IF weighted THEN (lo % 251) + 1 ELSE 1) * (bytes[lo] + 1)) % HASH_MOD
    ELSE LET mid == (lo + hi) \div 2 IN
         (HashSum(bytes, lo, mid, weighted) + HashSum(bytes, mid + 1, hi, weighted))
            % HASH_MOD

sha256(bytes) ==
    LET a == (1 + HashSum(bytes, 1, Len(bytes), FALSE)) % HASH_MOD
        b == (Len(bytes) + HashSum(bytes, 1, Len(bytes), TRUE)) % HASH_MOD
    IN  [i \in 1..HASH_LEN |->
            (a * i + b * (2 * i + 1) + (a \div 256) + (b \div 256) * i) % 256]

sha256Text(text) == sha256(utf8ToBytes(text))

(***************************************************************************)
(* @noble/secp256k1: keys and BIP340 Schnorr signatures.  The algebra is   *)
(* kept (R = G^r, e = H(R || P || m), s = r + e*k; verification checks     *)
(* G^s = R * P^e) over the subgroup of prime order CURVE_N of the          *)
(* integers modulo CURVE_P instead of the curve.  A private key is its     *)
(* byte length and its scalar; field elements and scalars are written as   *)
(* 32 bytes, big-endian.                                                   *)
(***************************************************************************)
CURVE_P == 227
CURVE_N == 113
CURVE_G == 4
KEY_LEN == 32
SIG_LEN == 64

\* modular exponentiation by squaring
RECURSIVE PowMod(_, _, _)
PowMod(base, e, m) ==
    IF e = 0 THEN 1 % m
    ELSE LET half == PowMod(base, e \div 2, m) IN
         IF e % 2 = 0 THEN (half * half) % m
         ELSE (((half * half) % m) * base) % m

\* numberTo32bBytes, for numbers below 256^2
NumberToBytes(n) ==
    [i \in 1..KEY_LEN |->
        IF i = KEY_LEN THEN n % 256
        ELSE IF i = KEY_LEN - 1 THEN (n \div 256) % 256
        ELSE 0]

\* bytesToNumber of the first n bytes, saturating at 2^22 (any such value is
\* out of range)
RECURSIVE NumberFrom(_, _)
NumberFrom(bytes, n) ==
    IF n = 0 THEN 0
    ELSE LET high == NumberFrom(bytes, n - 1) IN
         IF high >= 16384 THEN 4194304 ELSE high * 256 + bytes[n]

BytesToNumber(bytes) == NumberFrom(bytes, Len(bytes))

\* secp256k1.utils.isValidPrivateKey: 32 bytes and 0 < scalar < n
isValidPrivateKey(key) ==
    /\ key.len = KEY_LEN
    /\ key.scalar > 0
    /\ key.scalar < CURVE_N

\* schnorr.getPublicKey, and getPublicKey(key, true).slice(1): the x-only key
XOnlyPublicKey(key) == NumberToBytes(PowMod(CURVE_G, key.scalar, CURVE_P))

\* the challenge e = int(hash(R || P || m)) mod n
Challenge(rBytes, pBytes, msg) ==
    BytesToNumber(SubSeq(sha256(rBytes \o pBytes \o msg), HASH_LEN - 1, HASH_LEN))
        % CURVE_N

\* schnorr.sign(msg, key) with the nonce its auxiliary randomness gives
schnorrSign(msg, key, nonce) ==
    LET rBytes == NumberToBytes(PowMod(CURVE_G, nonce, CURVE_P))
        e == Challenge(rBytes, XOnlyPublicKey(key), msg)
    IN  rBytes \o NumberToBytes((nonce + e * key.scalar) % CURVE_N)

\* schnorr.verify(sig, msg, publicKey)
schnorrVerify(sig, msg, pub) ==
    /\ Len(sig) = SIG_LEN
    /\ Len(pub) = KEY_LEN
    /\ LET r == BytesToNumber(SubSeq(sig, 1, KEY_LEN))
           sc == BytesToNumber(SubSeq(sig, KEY_LEN + 1, SIG_LEN))
           px == BytesToNumber(pub)
       IN  /\ r > 0 /\ r < CURVE_P
           /\ px > 0 /\ px < CURVE_P
           /\ sc < CURVE_N
           /\ PowMod(CURVE_G, sc, CURVE_P)
                = (r * PowMod(px, Challenge(SubSeq(sig, 1, KEY_LEN), pub, msg), CURVE_P))
                    % CURVE_P

(***************************************************************************)
(* index.ts: signMessage                                                   *)
(***************************************************************************)
\* the second hash taken over the raw bytes of the first, as signTransaction does
HashCallsRaw(encoded) == <<encoded, sha256(encoded)>>

\* new Uint8Array(numbers): each element is stored modulo 256
Uint8ArrayFrom(numbers) == [k \in 1..Len(numbers) |-> numbers[k] % 256]

\* the arguments of the two sha256 calls: the encoded message, then the hex
\* text of the first hash (sha256 UTF-8 encodes a string argument)
HashCalls(encoded) ==
    <<Uint8ArrayFrom(encoded),
      utf8ToBytes(bytesToHex(sha256(Uint8ArrayFrom(encoded))))>>

\* the digest signTransaction computes: the hash of the first hash's bytes
MessageHashRawDouble(encoded) == sha256(sha256(encoded))

\* messageHash, the value handed to schnorr.sign
MessageHash(encoded) == sha256(HashCalls(encoded)[2])

\* the signature as base64 text, as signTransaction returns it
SignatureTextBase64(signature) == base64(signature)

\* the text of a signature that a signing task returns
SignatureText(signature) == bytesToHex(signature)

NoTask == [state |-> "pending", value |-> <<>>]

\* the key check left out
StartTaskUnchecked(key) == NoTask

\* the callback of signers.map up to its first await: an invalid key throws,
\* which rejects the task's promise at once; a valid key leaves schnorr.sign
\* pending
StartTask(key) ==
    IF isValidPrivateKey(key) THEN NoTask
    ELSE [state |-> "rejected", value |-> <<>>]

\* the callback once schnorr.sign has resolved
FinishTask(digest, key, nonce) ==
    [state |-> "fulfilled", value |-> SignatureText(schnorrSign(digest, key, nonce))]

(***************************************************************************)
(* index.ts: signTransaction                                               *)
(***************************************************************************)
\* the arguments of its two sha256 calls: the encoded message, then the bytes
\* of the first hash
TransactionHashCalls(encoded) ==
    <<Uint8ArrayFrom(encoded), sha256(Uint8ArrayFrom(encoded))>>

\* messageHash of signTransaction
TransactionHash(encoded) == sha256(TransactionHashCalls(encoded)[2])

\* Buffer.from(signature).toString('base64')
TransactionSignatureText(signature) == base64(signature)

\* the callback of signTransaction once schnorr.sign has resolved
FinishTransactionTask(digest, key, nonce) ==
    [state |-> "fulfilled",
     value |-> TransactionSignatureText(schnorrSign(digest, key, nonce))]

\* { version: 0, signatures, message }
RuntimeTransaction(sigs, m) == [version |-> 0, signatures |-> sigs, message |-> m]

\* Promise.all rejects as soon as one promise is rejected
PromiseAllRejected(ts) == \E i \in 1..Len(ts) : ts[i].state = "rejected"

\* Promise.all fulfils once every promise is, with the values in input order
PromiseAllFulfilled(ts) == \A i \in 1..Len(ts) : ts[i].state = "fulfilled"

\* the values in the order the promises settled
PromiseAllValuesByCompletion(ts, order) == [i \in 1..Len(order) |-> ts[order[i]].value]

PromiseAllValues(ts, order) == [i \in 1..Len(ts) |-> ts[i].value]

(***************************************************************************)
(* index.ts: serializeTransaction, sendTransaction, sendTransactions       *)
(***************************************************************************)
\* serializeTransaction throws exactly when hexToBytes does
WireOk(transaction) ==
    \A i \in 1..Len(transaction.signatures) : HexToBytesOk(transaction.signatures[i])

\* the same, with the version written as the literal 0
serializeTransactionVersion0(transaction) ==
    [message |->
        [signers |->
            [i \in 1..Len(transaction.message.signers) |->
                ArrayFrom(transaction.message.signers[i].bytes)],
         instructions |->
            [i \in 1..Len(transaction.message.instructions) |->
                LET inst == transaction.message.instructions[i] IN
                [program_id |-> ArrayFrom(inst.program_id.bytes),
                 accounts |->
                    [j \in 1..Len(inst.accounts) |->
                        [pubkey |-> ArrayFrom(inst.accounts[j].pubkey.bytes),
                         is_signer |-> inst.accounts[j].is_signer,
                         is_writable |-> inst.accounts[j].is_writable]],
                 data |-> ArrayFrom(inst.data)]]],
     signatures |->
        [i \in 1..Len(transaction.signatures) |->
            ArrayFrom(hexToBytes(transaction.signatures[i]))],
     version |-> 0]

serializeTransaction(transaction) ==
    [message |->
        [signers |->
            [i \in 1..Len(transaction.message.signers) |->
                ArrayFrom(transaction.message.signers[i].bytes)],
         instructions |->
            [i \in 1..Len(transaction.message.instructions) |->
                LET inst == transaction.message.instructions[i] IN
                [program_id |-> ArrayFrom(inst.program_id.bytes),
                 accounts |->
                    [j \in 1..Len(inst.accounts) |->
                        [pubkey |-> ArrayFrom(inst.accounts[j].pubkey.bytes),
                         is_signer |-> inst.accounts[j].is_signer,
                         is_writable |-> inst.accounts[j].is_writable]],
                 data |-> ArrayFrom(inst.data)]]],
     signatures |->
        [i \in 1..Len(transaction.signatures) |->
            ArrayFrom(hexToBytes(transaction.signatures[i]))],
     version |-> transaction.version]

\* transactions.map(tx => this.serializeTransaction(tx)): throws at the first
\* transaction that does not serialize, before anything is sent
AllWireOk(txs) == \A i \in 1..Len(txs) : WireOk(txs[i])

SerializeAll(txs) == [i \in 1..Len(txs) |-> serializeTransaction(txs[i])]

\* each transaction of the batch sent on its own as soon as it is serialized,
\* up to the first that does not serialize
RequestsOfBatchOneByOne(txs) ==
    LET sent == {k \in 0..Len(txs) : \A i \in 1..k : WireOk(txs[i])}
        last == CHOOSE k \in sent : \A j \in sent : j <= k
    IN  [i \in 1..last |->
            [method |-> "send_transactions", params |-> <<serializeTransaction(txs[i])>>]]

\* the requests sendTransactions issues for a batch: none when a transaction
\* does not serialize, else one carrying them all
RequestsOfBatch(txs) ==
    IF AllWireOk(txs)
    THEN <<[method |-> "send_transactions", params |-> SerializeAll(txs)]>>
    ELSE <<>>

\* the request sendTransaction issues: none when the transaction does not
\* serialize
RequestsOfOne(tx) ==
    IF WireOk(tx)
    THEN <<[method |-> "send_transaction", params |-> serializeTransaction(tx)]>>
    ELSE <<>>

(***************************************************************************)
(* index.ts: call                                                          *)
(***************************************************************************)
\* the payload call() posts for a request: id is Date.now().toString()
call(id, request) ==
    [jsonrpc |-> "2.0", id |-> id, method |-> request.method,
     params |-> request.params]

\* the payloads of a list of requests
CallAll(id, requests) == [i \in 1..Len(requests) |-> call(id, requests[i])]

\* the JavaScript type of the params value each public method hands to call()
ParamsTypeOf(rpcMethod) ==
    CASE rpcMethod = "send_transactions" -> "array"
      [] rpcMethod = "send_transaction" -> "object"
      [] rpcMethod = "is_node_ready" -> "array"
      [] rpcMethod = "get_account_address" -> "array"
      [] rpcMethod = "read_account_info" -> "array"
      [] rpcMethod = "get_block_count" -> "array"
      [] rpcMethod = "start_dkg" -> "array"
      [] rpcMethod = "get_block_hash" -> "number"
      [] rpcMethod = "get_block" -> "string"
      [] rpcMethod = "get_processed_transaction" -> "string"

\* response.data.error is truthy
ResponseHasError(r) == r.kind = "response" /\ r.hasError

\* the message prefixed, as a wrapping error handler would
ThrownMessageWrapped(r) == "RPC error: " \o r.message

\* the message of new Error(response.data.error.message): the server's
\* message, and the empty string when the error object has none
ThrownMessage(r) == IF r.hasMessage THEN r.message ELSE ""

\* the POST repeated once after a failure
PostsOnSettleRetry(ps, r) ==
    IF r.kind = "network" \/ ResponseHasError(r) THEN Append(ps, ps[1]) ELSE ps

\* the requests posted once the POST has settled: call() has no catch and no
\* loop, it posts nothing more
PostsOnSettle(ps, r) == ps

\* Pubkey.serialize(): Array.from(this.bytes)
serialize(pubkey) == ArrayFrom(pubkey.bytes)

(***************************************************************************)
(* index.ts: createArchAccount, transferAccountOwnership                   *)
(***************************************************************************)
\* the four bytes most significant first, as setUint32(offset, value, false)
Uint32BE(value) == [k \in 1..4 |-> LittleEndian(value, 4)[5 - k]]

\* DataView.setUint32(offset, value, true): value modulo 2^32, 4 bytes
Uint32LE(value) == LittleEndian(value, 4)

CREATE_DATA_LEN == 37
TRANSFER_DATA_LEN == 33

\* encodeCreateAccountData throws when hexToBytes does, and when the decoded
\* txid does not fit behind the type byte (Uint8Array.set: RangeError)
CreateAccountDataOk(txid) ==
    /\ HexToBytesOk(txid)
    /\ 1 + Len(hexToBytes(txid)) <= CREATE_DATA_LEN

\* encodeCreateAccountData: type byte 0, the txid bytes from offset 1, then
\* vout written over offsets 33..36
encodeCreateAccountData(txid, vout) ==
    LET txidBytes == hexToBytes(txid) IN
    [i \in 1..CREATE_DATA_LEN |->
        IF i > CREATE_DATA_LEN - 4 THEN Uint32LE(vout)[i - (CREATE_DATA_LEN - 4)]
        ELSE IF i = 1 THEN 0
        ELSE IF i - 1 <= Len(txidBytes) THEN txidBytes[i - 1]
        ELSE 0]

\* a program pubkey of 32 bytes or more let through
TransferDataOkAtLeast(programPubkeyHex) ==
    /\ HexToBytesOk(programPubkeyHex)
    /\ PubkeyOkAtLeast(hexToBytes(programPubkeyHex))

\* transferAccountOwnership throws when hexToBytes does and when new Pubkey
\* does
TransferDataOk(programPubkeyHex) ==
    /\ HexToBytesOk(programPubkeyHex)
    /\ PubkeyOk(hexToBytes(programPubkeyHex))

\* encodeTransferAccountOwnershipData: type byte 3, then the program pubkey
encodeTransferAccountOwnershipData(programPubkey) ==
    [i \in 1..TRANSFER_DATA_LEN |-> IF i = 1 THEN 3 ELSE programPubkey.bytes[i - 1]]

\* createCreateAccountInstruction / createTransferAccountOwnershipInstruction
SystemInstruction(pubkey, data) ==
    [program_id |-> systemProgram,
     accounts |-> <<[pubkey |-> pubkey, is_signer |-> TRUE, is_writable |-> TRUE]>>,
     data |-> data]

\* createMessage([pubkey], [instruction])
AccountMessage(pubkey, data) ==
    [signers |-> <<pubkey>>, instructions |-> <<SystemInstruction(pubkey, data)>>]

\* the transaction assembled with another version number
SignedTransactionVersion1(sigs, m) == [version |-> 1, signatures |-> sigs, message |-> m]

\* the transaction both methods assemble
SignedTransaction(sigs, m) == [version |-> 0, signatures |-> sigs, message |-> m]

(***************************************************************************)
(* Inputs: the values a caller passes in.                                  *)
(***************************************************************************)
SeqsUpTo(S, n) == UNION {[1..k -> S] : k \in 0..n}

K1 == Pubkey(Fill(PUBKEY_LEN, 1))
K2 == Pubkey(Fill(PUBKEY_LEN, 2))

\* signer lists: empty, single, out of byte order, with a duplicate
SignerLists == {<<>>, <<K1>>, <<K2, K1>>, <<K1, K1>>}

A1 == [pubkey |-> K1, is_signer |-> TRUE, is_writable |-> FALSE]
A2 == [pubkey |-> K2, is_signer |-> FALSE, is_writable |-> TRUE]
A3 == [pubkey |-> K1, is_signer |-> TRUE, is_writable |-> TRUE]

AccountLists == {<<>>, <<A3>>, <<A2, A1>>}

LongData == Fill(258, 0)

DataPool == {<<>>, <<0, 1, 2>>}

InstructionPool ==
    {[program_id |-> p, accounts |-> a, data |-> d] :
        p \in {systemProgram, K2}, a \in AccountLists, d \in DataPool}
    \cup {[program_id |-> systemProgram, accounts |-> <<A2, A1>>, data |-> LongData]}

\* numbers that are not bytes, which the number[] type of data allows
WideData == <<256, -1, 7>>

\* more signers than one byte counts
ManySigners == [i \in 1..256 |-> K1]

WideMessages ==
    {[signers |-> <<K1>>,
      instructions |-> <<[program_id |-> systemProgram, accounts |-> <<A3>>,
                          data |-> WideData]>>],
     [signers |-> ManySigners, instructions |-> <<>>]}

Messages ==
    {[signers |-> s, instructions |-> il] :
        s \in SignerLists, il \in SeqsUpTo(InstructionPool, MaxInstructions)}
    \cup WideMessages

NoMessage == [signers |-> <<>>, instructions |-> <<>>]

\* messages of the transactions handed to the wire formatter
M1 == [signers |-> <<K1>>,
       instructions |-> <<[program_id |-> systemProgram, accounts |-> <<A3>>,
                           data |-> <<0, 1, 2>>]>>]
M2 == [signers |-> <<K2, K1>>,
       instructions |-> <<[program_id |-> K2, accounts |-> <<A2, A1>>, data |-> <<>>],
                          [program_id |-> systemProgram, accounts |-> <<A3>>,
                           data |-> <<0, 1, 2>>]>>]

\* the messages handed to signMessage: one and two signers, one and two
\* instructions, short and long data
SignedMessages ==
    {M1, M2,
     [signers |-> <<K1>>,
      instructions |-> <<[program_id |-> systemProgram, accounts |-> <<A3>>,
                          data |-> LongData]>>]}

\* private keys: two valid ones; the scalar 0, the scalar n and a 31-byte
\* key are not valid
KeyA == [len |-> KEY_LEN, scalar |-> 3]
KeyB == [len |-> KEY_LEN, scalar |-> 7]
KeyZero == [len |-> KEY_LEN, scalar |-> 0]
KeyOrder == [len |-> KEY_LEN, scalar |-> CURVE_N]
KeyShort == [len |-> KEY_LEN - 1, scalar |-> 5]

PrivateKeyPool == {KeyA, KeyB, KeyZero, KeyOrder, KeyShort}

\* key lists: every list of the two valid keys and the zero key, and the other
\* invalid keys alone, last and first
KeyLists ==
    SeqsUpTo({KeyA, KeyB, KeyZero}, MaxKeys)
    \cup {<<KeyOrder>>, <<KeyShort>>, <<KeyA, KeyShort>>, <<KeyOrder, KeyB>>}

\* the nonces that schnorr.sign's auxiliary randomness can give
Nonces == {1, 2}

\* the key lists handed to signTransaction
TransactionKeyLists == {<<KeyA>>, <<KeyB, KeyA>>, <<KeyZero>>}

\* the messages whose first encoding the caller keeps for comparison
KeptMessages == {M1}

\* signature strings: a signature in hex; "AAAA"; "abc" (odd length); "zz"
SignatureA == bytesToHex(schnorrSign(MessageHash(encodeMessage(M1)), KeyA, 1))
SignatureTexts == {SignatureA, <<65, 65, 65, 65>>, <<97, 98, 99>>, <<122, 122>>}

Versions == {0, 1}

Transactions ==
    {[version |-> v, signatures |-> sg, message |-> m] :
        v \in Versions, sg \in SeqsUpTo(SignatureTexts, MaxSignatures),
        m \in {NoMessage, M1, M2}}

\* the transactions of a batch: well-formed, fewer signatures than signers,
\* a signature that is no hex
BatchPool ==
    {[version |-> 0, signatures |-> <<SignatureA>>, message |-> M1],
     [version |-> 1, signatures |-> <<SignatureA>>, message |-> M2],
     [version |-> 0, signatures |-> <<<<122, 122>>>>, message |-> M1]}

Batches == SeqsUpTo(BatchPool, MaxBatch)

\* txid strings: 32 bytes in hex; "abc" (odd length); "zz" (no hex); "abcd"
\* (2 bytes); 33 bytes and 37 bytes in hex
HexOfBytes(n) == bytesToHex([i \in 1..n |-> 16 * (i % 16) + 10])
Txids == {HexOfBytes(32), <<97, 98, 99>>, <<122, 122>>, <<97, 98, 99, 100>>,
          HexOfBytes(33), HexOfBytes(37)}

Vouts == {0, 1, 258, -1}

\* program pubkey strings: 32 bytes in hex, 31 bytes, 33 bytes, odd, no hex
ProgramHexes == {HexOfBytes(32), HexOfBytes(31), HexOfBytes(33),
                 <<97, 98, 99>>, <<122, 122>>}

\* byte arrays handed to new Pubkey: 32 bytes (several), 0, 31, 33 and 64
ByteInputs ==
    {Fill(PUBKEY_LEN, 1), Fill(PUBKEY_LEN, 255), systemProgram.bytes,
     [i \in 1..PUBKEY_LEN |-> (37 * i + 200) % 256],
     <<>>, Fill(PUBKEY_LEN - 1, 1), Fill(PUBKEY_LEN + 1, 1), Fill(2 * PUBKEY_LEN, 1)}

\* "ZZ"
NotHex == <<90, 90>>

\* strings handed to Pubkey.fromString: 64 hex digits, lower and upper case;
\* 62, 63, 65 and 66 digits; 64 digits followed by "ZZ", preceded by "ZZ",
\* with "ZZ" in place of the last pair; the empty string
PubkeyStrings ==
    {HexOfBytes(32), [i \in 1..64 |-> IF i % 2 = 0 THEN 65 ELSE 66],
     HexOfBytes(31), SubSeq(HexOfBytes(32), 1, 63),
     HexOfBytes(32) \o <<97>>, HexOfBytes(33),
     HexOfBytes(32) \o NotHex, NotHex \o HexOfBytes(32),
     HexOfBytes(31) \o NotHex, <<>>}

\* Date.now().toString() at the time of a call
Clock == {"1730000000000", "1730000000001"}

\* the result field of a response to send_transactions: a list of ids, of any
\* length and order the node chooses
IdLists == {<<>>, <<"id1">>, <<"id1", "id2">>, <<"id2", "id1">>}

\* what rpc.post settles with: a response carrying a result, a response
\* carrying an error object with or without a message, or a rejection (no
\* response, or a status outside 2xx)
Response(hasError, hasMessage, text, value) ==
    [kind |-> "response", hasError |-> hasError, hasMessage |-> hasMessage,
     message |-> text, result |-> value]

NetworkError == [kind |-> "network", hasError |-> FALSE, hasMessage |-> FALSE,
                 message |-> "Network Error", result |-> ""]

NoResponse == [kind |-> "none", hasError |-> FALSE, hasMessage |-> FALSE,
               message |-> "", result |-> ""]

ErrorResponses ==
    {Response(TRUE, TRUE, "bad request", ""),
     Response(TRUE, TRUE, "", ""),
     Response(TRUE, FALSE, "", "")}

\* the responses to a call of the given public method
Responses(m) ==
    ErrorResponses \cup {NetworkError}
    \cup (IF m = "sendTransactions"
          THEN {Response(FALSE, FALSE, "", ids) : ids \in IdLists}
          ELSE {Response(FALSE, FALSE, "", "txid")})

\* the read-only public methods, with the request each hands to call()
Queries ==
    <<[name |-> "isNodeReady", method |-> "is_node_ready", params |-> <<>>],
      [name |-> "getAccountAddress", method |-> "get_account_address",
       params |-> serialize(K1)],
      [name |-> "readAccountInfo", method |-> "read_account_info",
       params |-> serialize(K2)],
      [name |-> "getBlockCount", method |-> "get_block_count", params |-> <<>>],
      [name |-> "startDkg", method |-> "start_dkg", params |-> <<>>],
      [name |-> "getBlockHash", method |-> "get_block_hash", params |-> 7],
      [name |-> "getBlock", method |-> "get_block", params |-> "blockhash"],
      [name |-> "getProcessedTransaction", method |-> "get_processed_transaction",
       params |-> "txid"]>>

\* no instruction, no arguments
NoInstruction == [program_id |-> NoPubkey, accounts |-> <<>>, data |-> <<>>]

NoArgs == [txid |-> <<>>, vout |-> 0, programPubkeyHex |-> <<>>]

\* the signers reversed in place
MessageAfterCallReversed(m) ==
    [m EXCEPT !.signers = [i \in 1..Len(m.signers) |-> m.signers[Len(m.signers) + 1 - i]]]

\* the caller's message after encodeMessage, signMessage or a method that
\* calls them ran on it: they read it with forEach, Array.from and spread, and
\* assign to none of its parts
MessageAfterCall(m) == m

\* the caller's transaction after serializeTransaction or a send ran on it:
\* read with map, Array.from and hexToBytes, never assigned to
TransactionAfterCall(tx) == tx

(***************************************************************************)
(* State                                                                   *)
(***************************************************************************)
VARIABLES
    pc,              \* position of the method in progress
    method,          \* the client method last invoked
    message,         \* its Message argument
    encodedMessage,  \* what encodeMessage last returned (<<>>: nothing yet)
    signers,         \* signMessage: the private keys supplied
    hashCalls,       \* signMessage: the arguments of its sha256 calls
    messageHash,     \* signMessage: the digest handed to schnorr.sign
    tasks,           \* signMessage: the promises of signers.map, in key order
    nonces,          \* the nonce each finished task drew
    completed,       \* the indices of the finished tasks, in completion order
    status,          \* how the method ended: "none", "ok" or "error"
    error,           \* the message of the error thrown
    failedAt,        \* the step that threw: "key", "data", "sign", "wire", "rpc"
    signatures,      \* the list signMessage returned
    transactions,    \* the transactions handed to the wire formatter
    wire,            \* what serializeTransaction returned for each of them
    posts,           \* the requests posted during this call, in order
    response,        \* what the POST settled with
    result,          \* the result field returned to the caller
    arg,             \* the bytes or the string handed to a Pubkey operation
    pubkey,          \* the Pubkey a Pubkey operation returned
    str,             \* the string toString returned
    parsed,          \* the Pubkey that fromString returned
    heap,            \* the arrays systemProgram() has handed out
    earlier,         \* an encoding the caller has kept from an earlier call
    messageAfter,    \* the caller's message object as the call leaves it
    transactionsAfter, \* the caller's transaction objects as the call leaves them
    serialized,      \* what serializeInstruction or serializeMessage returned
    instructionIn,   \* the instruction handed to serializeInstruction
    callArgs         \* the txid, vout and program pubkey string of the call

vars == <<pc, method, message, messageAfter, encodedMessage, signers, hashCalls, messageHash,
          tasks, nonces, completed, status, error, failedAt, signatures,
          transactions, transactionsAfter, wire, posts, response, result,
          arg, pubkey, str, parsed, heap, earlier, serialized, instructionIn,
          callArgs>>

signVars == <<signers, hashCalls, messageHash, tasks, nonces, completed>>

sendVars == <<transactions, transactionsAfter, wire, posts, response, result>>

privateVars == <<serialized, instructionIn>>

codecVars == <<message, messageAfter, encodedMessage, signVars, signatures, sendVars,
               privateVars, callArgs>>

pubkeyVars == <<arg, pubkey, str, parsed, heap>>

NoEarlier == [message |-> NoMessage, encoded |-> <<>>]

\* the array left by the earlier call, used again
ReusedParts == earlier.encoded

\* `parts`, the array encodeMessage pushes into: a new empty array on every call
NewParts == <<>>

\* this.encodeMessage(m), as the client's methods call it
EncodeCall(m) == NewParts \o encodeMessage(m)

Init ==
    /\ pc = "idle"
    /\ method = "none"
    /\ message = NoMessage
    /\ encodedMessage = <<>>
    /\ signers = <<>>
    /\ hashCalls = <<>>
    /\ messageHash = <<>>
    /\ tasks = <<>>
    /\ nonces = <<>>
    /\ completed = <<>>
    /\ status = "none"
    /\ error = ""
    /\ failedAt = "none"
    /\ signatures = <<>>
    /\ transactions = <<>>
    /\ wire = <<>>
    /\ posts = <<>>
    /\ response = NoResponse
    /\ result = ""
    /\ arg = <<>>
    /\ pubkey = NoPubkey
    /\ str = <<>>
    /\ parsed = NoPubkey
    /\ heap = <<>>
    /\ earlier = NoEarlier
    /\ messageAfter = NoMessage
    /\ transactionsAfter = <<>>
    /\ serialized = <<>>
    /\ instructionIn = NoInstruction
    /\ callArgs = NoArgs

\* client.encodeMessage(m): public, synchronous
EncodeMessage ==
    /\ UNCHANGED <<pubkeyVars, earlier, privateVars, callArgs>>
    /\ pc = "idle"
    /\ \E m \in Messages :
        /\ message' = m
        /\ messageAfter' = MessageAfterCall(m)
        /\ encodedMessage' = EncodeCall(m)
    /\ method' = "encodeMessage"
    /\ pc' = "done"
    /\ status' = "ok"
    /\ UNCHANGED <<signVars, sendVars, error, failedAt, signatures>>

\* this.serializeInstruction(instruction): private, synchronous
SerializeInstruction ==
    /\ UNCHANGED <<pubkeyVars, earlier, callArgs>>
    /\ pc = "idle"
    /\ \E instruction \in InstructionPool :
        /\ instructionIn' = instruction
        /\ serialized' = serializeInstruction(instruction)
    /\ method' = "serializeInstruction"
    /\ pc' = "done"
    /\ status' = "ok"
    /\ UNCHANGED <<message, messageAfter, encodedMessage, signVars, sendVars, error,
                   failedAt, signatures>>

\* this.serializeMessage(m): private, synchronous
SerializeMessage ==
    /\ UNCHANGED <<pubkeyVars, earlier, callArgs, instructionIn>>
    /\ pc = "idle"
    /\ \E m \in Messages :
        /\ message' = m
        /\ messageAfter' = MessageAfterCall(m)
        /\ serialized' = serializeMessage(m)
    /\ method' = "serializeMessage"
    /\ pc' = "done"
    /\ status' = "ok"
    /\ UNCHANGED <<encodedMessage, signVars, sendVars, error, failedAt, signatures>>

\* signMessage up to its await: encode, hash twice, start one task per key
StartSigning(m, keys) ==
    /\ message' = m
    /\ messageAfter' = MessageAfterCall(m)
    /\ signers' = keys
    /\ encodedMessage' = EncodeCall(m)
    /\ hashCalls' = HashCalls(EncodeCall(m))
    /\ messageHash' = MessageHash(EncodeCall(m))
    /\ tasks' = [i \in 1..Len(keys) |-> StartTask(keys[i])]
    /\ nonces' = [i \in 1..Len(keys) |-> 0]
    /\ completed' = <<>>

\* client.signMessage(m, keys)
SignMessage ==
    /\ UNCHANGED <<pubkeyVars, earlier, privateVars, callArgs>>
    /\ pc = "idle"
    /\ \E m \in SignedMessages, keys \in KeyLists : StartSigning(m, keys)
    /\ method' = "signMessage"
    /\ pc' = "signing"
    /\ UNCHANGED <<sendVars, status, error, failedAt, signatures>>

\* this.signTransaction(m, keys): private
SignTransaction ==
    /\ UNCHANGED <<pubkeyVars, earlier, privateVars, callArgs>>
    /\ pc = "idle"
    /\ \E m \in SignedMessages, keys \in TransactionKeyLists :
        /\ message' = m
        /\ messageAfter' = MessageAfterCall(m)
        /\ signers' = keys
        /\ encodedMessage' = EncodeCall(m)
        /\ hashCalls' = TransactionHashCalls(EncodeCall(m))
        /\ messageHash' = TransactionHash(EncodeCall(m))
        /\ tasks' = [i \in 1..Len(keys) |-> StartTask(keys[i])]
        /\ nonces' = [i \in 1..Len(keys) |-> 0]
        /\ completed' = <<>>
    /\ method' = "signTransaction"
    /\ pc' = "signing"
    /\ UNCHANGED <<sendVars, status, error, failedAt, signatures>>

\* one pending schnorr.sign resolves; the tasks finish in any order
SignTask ==
    /\ UNCHANGED <<pubkeyVars, earlier, privateVars, callArgs>>
    /\ pc = "signing"
    /\ \E i \in 1..Len(tasks), nonce \in Nonces :
        /\ tasks[i].state = "pending"
        /\ tasks' = [tasks EXCEPT ![i] =
                        IF method = "signTransaction"
                        THEN FinishTransactionTask(messageHash, signers[i], nonce)
                        ELSE FinishTask(messageHash, signers[i], nonce)]
        /\ nonces' = [nonces EXCEPT ![i] = nonce]
        /\ completed' = Append(completed, i)
    /\ UNCHANGED <<pc, method, message, messageAfter, encodedMessage, signers, hashCalls,
                   messageHash, status, error, failedAt, signatures, sendVars>>

\* await Promise.all(...) throws: signMessage rejects with the task's error,
\* and so does the method awaiting it
SignRejected ==
    /\ UNCHANGED <<pubkeyVars, earlier, privateVars, callArgs>>
    /\ pc = "signing"
    /\ PromiseAllRejected(tasks)
    /\ pc' = "done"
    /\ status' = "error"
    /\ error' = "Invalid private key"
    /\ failedAt' = "sign"
    /\ UNCHANGED <<method, message, messageAfter, encodedMessage, signVars, signatures, sendVars>>

\* await Promise.all(...) returns: signMessage returns the list, and
\* signTransaction the list inside a transaction
SignFulfilled ==
    /\ UNCHANGED <<pubkeyVars, earlier, privateVars, callArgs>>
    /\ pc = "signing"
    /\ method \in {"signMessage", "signTransaction"}
    /\ PromiseAllFulfilled(tasks)
    /\ pc' = "done"
    /\ status' = "ok"
    /\ signatures' = PromiseAllValues(tasks, completed)
    /\ UNCHANGED <<method, message, messageAfter, encodedMessage, signVars, error, failedAt,
                   sendVars>>

\* a method that throws before it has signed or sent anything
Throw(step, text) ==
    /\ pc' = "done"
    /\ status' = "error"
    /\ error' = text
    /\ failedAt' = step
    /\ UNCHANGED <<message, messageAfter, encodedMessage, signVars>>

\* client.createArchAccount(privateKey, txid, vout) up to its first await
CreateArchAccount ==
    /\ UNCHANGED <<pubkeyVars, earlier, privateVars>>
    /\ pc = "idle"
    /\ \E key \in PrivateKeyPool, txid \in Txids, vout \in Vouts :
        /\ callArgs' = [NoArgs EXCEPT !.txid = txid, !.vout = vout]
        /\ IF ~isValidPrivateKey(key)
           THEN Throw("key", "getPublicKey: invalid private key")
           ELSE IF ~CreateAccountDataOk(txid)
           THEN Throw("data", "encodeCreateAccountData: invalid txid")
           ELSE /\ StartSigning(AccountMessage(Pubkey(XOnlyPublicKey(key)),
                                               encodeCreateAccountData(txid, vout)),
                                <<key>>)
                /\ pc' = "signing"
                /\ UNCHANGED <<status, error, failedAt>>
    /\ method' = "createArchAccount"
    /\ UNCHANGED <<signatures, sendVars>>

\* client.transferAccountOwnership(privateKey, programPubkeyHex) up to its
\* first await
TransferAccountOwnership ==
    /\ UNCHANGED <<pubkeyVars, earlier, privateVars>>
    /\ pc = "idle"
    /\ \E key \in PrivateKeyPool, hex \in ProgramHexes :
        /\ callArgs' = [NoArgs EXCEPT !.programPubkeyHex = hex]
        /\ IF ~isValidPrivateKey(key)
           THEN Throw("key", "getPublicKey: invalid private key")
           ELSE IF ~TransferDataOk(hex)
           THEN Throw("data", "invalid program pubkey")
           ELSE /\ StartSigning(AccountMessage(Pubkey(XOnlyPublicKey(key)),
                       encodeTransferAccountOwnershipData(Pubkey(hexToBytes(hex)))),
                                <<key>>)
                /\ pc' = "signing"
                /\ UNCHANGED <<status, error, failedAt>>
    /\ method' = "transferAccountOwnership"
    /\ UNCHANGED <<signatures, sendVars>>

\* serializeTransaction(tx), called on its own as the tests do
SerializeTransaction ==
    /\ UNCHANGED <<pubkeyVars, earlier, privateVars, callArgs>>
    /\ pc = "idle"
    /\ \E tx \in Transactions :
        /\ transactions' = <<tx>>
        /\ transactionsAfter' = <<TransactionAfterCall(tx)>>
        /\ IF WireOk(tx)
           THEN /\ wire' = <<serializeTransaction(tx)>>
                /\ status' = "ok"
                /\ UNCHANGED <<error, failedAt>>
           ELSE /\ wire' = <<>>
                /\ status' = "error"
                /\ error' = "hexToBytes: invalid hex"
                /\ failedAt' = "wire"
    /\ method' = "serializeTransaction"
    /\ pc' = "done"
    /\ UNCHANGED <<message, messageAfter, encodedMessage, signVars, signatures, posts, response, result>>

\* sendTransaction / sendTransactions up to the await in call(): serialize,
\* then post one request; a transaction that does not serialize throws first
Submit(txs, requests) ==
    /\ transactions' = txs
    /\ transactionsAfter' = [i \in 1..Len(txs) |-> TransactionAfterCall(txs[i])]
    /\ \E id \in Clock : posts' = posts \o CallAll(id, requests)
    /\ response' = response
    /\ IF AllWireOk(txs)
       THEN /\ wire' = SerializeAll(txs)
            /\ pc' = "posted"
            /\ UNCHANGED <<status, error, failedAt>>
       ELSE /\ wire' = <<>>
            /\ pc' = "done"
            /\ status' = "error"
            /\ error' = "hexToBytes: invalid hex"
            /\ failedAt' = "wire"

\* client.sendTransaction(tx)
SendTransaction ==
    /\ UNCHANGED <<pubkeyVars, earlier, privateVars, callArgs>>
    /\ pc = "idle"
    /\ \E tx \in Transactions : Submit(<<tx>>, RequestsOfOne(tx))
    /\ method' = "sendTransaction"
    /\ UNCHANGED <<message, messageAfter, encodedMessage, signVars, signatures, result>>

\* client.sendTransactions(txs)
SendTransactions ==
    /\ UNCHANGED <<pubkeyVars, earlier, privateVars, callArgs>>
    /\ pc = "idle"
    /\ \E txs \in Batches : Submit(txs, RequestsOfBatch(txs))
    /\ method' = "sendTransactions"
    /\ UNCHANGED <<message, messageAfter, encodedMessage, signVars, signatures, result>>

\* createArchAccount / transferAccountOwnership after await signMessage:
\* assemble the transaction and hand it to sendTransaction
SendSigned ==
    /\ UNCHANGED <<pubkeyVars, earlier, privateVars, callArgs>>
    /\ pc = "signing"
    /\ method \in {"createArchAccount", "transferAccountOwnership"}
    /\ PromiseAllFulfilled(tasks)
    /\ signatures' = PromiseAllValues(tasks, completed)
    /\ LET tx == SignedTransaction(PromiseAllValues(tasks, completed), message)
       IN  Submit(<<tx>>, RequestsOfOne(tx))
    /\ UNCHANGED <<method, message, messageAfter, encodedMessage, signVars, result>>

\* a read-only public method up to the await in call()
Query ==
    /\ UNCHANGED <<pubkeyVars, earlier, privateVars, callArgs>>
    /\ pc = "idle"
    /\ \E i \in 1..Len(Queries), id \in Clock :
        /\ method' = Queries[i].name
        /\ posts' = <<call(id, Queries[i])>>
    /\ pc' = "posted"
    /\ UNCHANGED <<message, messageAfter, encodedMessage, signVars, status, error, failedAt,
                   signatures, transactions, transactionsAfter, wire, response, result>>

\* call(): the POST settles; a rejected POST throws, a truthy error field in
\* the response throws its message, otherwise the result field is returned
RpcRespond ==
    /\ UNCHANGED <<pubkeyVars, earlier, privateVars, callArgs>>
    /\ pc = "posted"
    /\ \E r \in Responses(method) :
        /\ response' = r
        /\ posts' = PostsOnSettle(posts, r)
        /\ IF r.kind = "network"
           THEN /\ status' = "error"
                /\ error' = r.message
                /\ failedAt' = "rpc"
                /\ UNCHANGED result
           ELSE IF ResponseHasError(r)
           THEN /\ status' = "error"
                /\ error' = ThrownMessage(r)
                /\ failedAt' = "rpc"
                /\ UNCHANGED result
           ELSE /\ status' = "ok"
                /\ result' = r.result
                /\ UNCHANGED <<error, failedAt>>
    /\ pc' = "done"
    /\ UNCHANGED <<method, message, messageAfter, encodedMessage, signVars, signatures,
                   transactions, transactionsAfter, wire>>

\* new Pubkey(bytes)
NewPubkey ==
    /\ pc = "idle"
    /\ \E bytes \in ByteInputs :
        /\ arg' = bytes
        /\ IF PubkeyOk(bytes)
           THEN /\ pubkey' = Pubkey(bytes)
                /\ status' = "ok"
                /\ UNCHANGED <<error, failedAt>>
           ELSE /\ pubkey' = NoPubkey
                /\ status' = "error"
                /\ error' = "Pubkey must be 32 bytes"
                /\ failedAt' = "pubkey"
    /\ method' = "Pubkey"
    /\ pc' = "done"
    /\ UNCHANGED <<str, parsed, heap, earlier, codecVars>>

\* p.toString() on the Pubkey just constructed
PubkeyToString ==
    /\ pc = "done"
    /\ method = "Pubkey"
    /\ status = "ok"
    /\ str' = toString(pubkey)
    /\ method' = "toString"
    /\ UNCHANGED <<pc, status, error, failedAt, arg, pubkey, parsed, heap, earlier,
                   codecVars>>

\* Pubkey.fromString(s), on a caller's string or on the string toString
\* has just returned
PubkeyFromString ==
    /\ pc = "idle" \/ (pc = "done" /\ method = "toString")
    /\ \E s \in (IF pc = "idle" THEN PubkeyStrings ELSE {str}) :
        /\ arg' = s
        /\ IF FromStringOk(s)
           THEN /\ parsed' = fromString(s)
                /\ status' = "ok"
                /\ UNCHANGED <<error, failedAt>>
           ELSE /\ parsed' = NoPubkey
                /\ status' = "error"
                /\ error' = "Invalid pubkey string"
                /\ failedAt' = "pubkey"
    /\ method' = "fromString"
    /\ pc' = "done"
    /\ UNCHANGED <<pubkey, str, heap, earlier, codecVars>>

\* Pubkey.systemProgram(), first or after earlier calls and writes; pubkey is
\* the value the call returns, as it is at the return
SystemProgram ==
    /\ pc = "idle" \/ (pc = "done" /\ method \in {"systemProgram", "write"})
    /\ Len(heap) < MaxCalls
    /\ heap' = SystemProgramAlloc(heap)
    /\ pubkey' = Pubkey(heap'[Len(heap')])
    /\ method' = "systemProgram"
    /\ pc' = "done"
    /\ status' = "ok"
    /\ UNCHANGED <<error, failedAt, arg, str, parsed, earlier, codecVars>>

\* the caller writes into the bytes of a Pubkey that systemProgram() returned
WriteBytes ==
    /\ pc = "done"
    /\ method \in {"systemProgram", "write"}
    /\ \E i \in 1..Len(heap), k \in {1, PUBKEY_LEN} :
        /\ heap[i][k] # 9
        /\ heap' = [heap EXCEPT ![i][k] = 9]
    /\ method' = "write"
    /\ UNCHANGED <<pc, status, error, failedAt, arg, pubkey, str, parsed, earlier,
                   codecVars>>

\* the caller has taken the result or the error; the client keeps nothing of
\* the call (its only field is the axios instance)
Return ==
    /\ pc = "done"
    /\ pc' = "idle"
    /\ method' = "none"
    /\ message' = NoMessage
    /\ encodedMessage' = <<>>
    /\ signers' = <<>>
    /\ hashCalls' = <<>>
    /\ messageHash' = <<>>
    /\ tasks' = <<>>
    /\ nonces' = <<>>
    /\ completed' = <<>>
    /\ status' = "none"
    /\ error' = ""
    /\ failedAt' = "none"
    /\ signatures' = <<>>
    /\ transactions' = <<>>
    /\ wire' = <<>>
    /\ posts' = <<>>
    /\ response' = NoResponse
    /\ result' = ""
    /\ arg' = <<>>
    /\ pubkey' = NoPubkey
    /\ str' = <<>>
    /\ parsed' = NoPubkey
    /\ heap' = <<>>
    /\ messageAfter' = NoMessage
    /\ transactionsAfter' = <<>>
    /\ serialized' = <<>>
    /\ instructionIn' = NoInstruction
    /\ callArgs' = NoArgs
    /\ earlier' = IF method = "encodeMessage" /\ earlier = NoEarlier /\ message \in KeptMessages
                  THEN [message |-> message, encoded |-> encodedMessage]
                  ELSE earlier

Next ==
    \/ EncodeMessage
    \/ SignMessage
    \/ SignTransaction
    \/ SignTask
    \/ SignRejected
    \/ SignFulfilled
    \/ SerializeInstruction
    \/ SerializeMessage
    \/ SerializeTransaction
    \/ SendTransaction
    \/ SendTransactions
    \/ CreateArchAccount
    \/ TransferAccountOwnership
    \/ SendSigned
    \/ Query
    \/ RpcRespond
    \/ NewPubkey
    \/ PubkeyToString
    \/ PubkeyFromString
    \/ SystemProgram
    \/ WriteBytes
    \/ Return

Spec == Init /\ [][Next]_vars

(***************************************************************************)
(* Layout of an encoded message, by byte position.  Positions count the    *)
(* bytes that precede a field; `width` is the width of the data length.    *)
(***************************************************************************)
InstructionSize(instruction, width) ==
    PUBKEY_LEN + 1 + (PUBKEY_LEN + 2) * Len(instruction.accounts)
        + width + Len(instruction.data)

RECURSIVE InstructionOffset(_, _, _)
InstructionOffset(m, i, width) ==
    IF i = 1 THEN 1 + PUBKEY_LEN * Len(m.signers) + 1
    ELSE InstructionOffset(m, i - 1, width)
            + InstructionSize(m.instructions[i - 1], width)

DataLengthOffset(m, i, width) ==
    InstructionOffset(m, i, width) + PUBKEY_LEN + 1
        + (PUBKEY_LEN + 2) * Len(m.instructions[i].accounts)

\* byte k (from 0) of a little-endian unsigned integer below 2^31
LittleEndianByte(value, k) ==
    IF k = 0 THEN value % 256
    ELSE IF k = 1 THEN (value \div 256) % 256
    ELSE IF k = 2 THEN (value \div 65536) % 256
    ELSE IF k = 3 THEN (value \div 16777216) % 256
    ELSE 0

\* every data length is `width` little-endian bytes, the data right after it
DataLengthFieldIs(encoded, m, width) ==
    \A i \in 1..Len(m.instructions) :
        LET off == DataLengthOffset(m, i, width)
            data == m.instructions[i].data
        IN  /\ Len(encoded) >= off + width + Len(data)
            /\ \A k \in 0..(width - 1) :
                    encoded[off + 1 + k] = LittleEndianByte(Len(data), k)
            /\ \A k \in 1..Len(data) : encoded[off + width + k] = data[k]

\* C1 as stated: the encoding that encodeMessage returns, and that signMessage
\* hashes, holds each instruction's data length as exactly 4 little-endian
\* bytes immediately before the data bytes.
C1_DataLengthFourBytes ==
    encodedMessage # <<>> => DataLengthFieldIs(encodedMessage, message, 4)

\* C1 amended: the encoding that encodeMessage returns, and that signMessage
\* hashes, holds each instruction's data length as exactly 8 little-endian
\* bytes immediately before the data bytes.
C1_DataLengthEightBytes ==
    /\ encodedMessage # <<>> => DataLengthFieldIs(encodedMessage, message, 8)
    /\ hashCalls # <<>> => hashCalls[1] = encodedMessage

C1_Witness ==
    /\ method = "signMessage"
    /\ hashCalls # <<>>
    /\ Len(message.instructions[1].data) > 255

\* C2: the encoding is exactly signer count, signers, instruction count and
\* per instruction program id, account count, accounts (pubkey, is_signer,
\* is_writable), length prefix, data, each list in its own order, and
\* nothing else.
C2_ExactLayout ==
    encodedMessage # <<>> =>
        LET m == message
            e == encodedMessage
            n == Len(m.instructions)
        IN  /\ e[1] = Len(m.signers)
            /\ \A j \in 1..Len(m.signers) : \A k \in 1..PUBKEY_LEN :
                    e[1 + PUBKEY_LEN * (j - 1) + k] = m.signers[j].bytes[k]
            /\ e[2 + PUBKEY_LEN * Len(m.signers)] = n
            /\ \A i \in 1..n :
                LET base == InstructionOffset(m, i, 8)
                    ins == m.instructions[i]
                IN  /\ \A k \in 1..PUBKEY_LEN : e[base + k] = ins.program_id.bytes[k]
                    /\ e[base + PUBKEY_LEN + 1] = Len(ins.accounts)
                    /\ \A a \in 1..Len(ins.accounts) :
                        LET at == base + PUBKEY_LEN + 1 + (PUBKEY_LEN + 2) * (a - 1) IN
                        /\ \A k \in 1..PUBKEY_LEN :
                                e[at + k] = ins.accounts[a].pubkey.bytes[k]
                        /\ e[at + PUBKEY_LEN + 1]
                                = (IF ins.accounts[a].is_signer THEN 1 ELSE 0)
                        /\ e[at + PUBKEY_LEN + 2]
                                = (IF ins.accounts[a].is_writable THEN 1 ELSE 0)
                    /\ SubSeq(e, DataLengthOffset(m, i, 8) + 8 + 1,
                              DataLengthOffset(m, i, 8) + 8 + Len(ins.data)) = ins.data
            /\ Len(e) = IF n = 0 THEN 2 + PUBKEY_LEN * Len(m.signers)
                        ELSE InstructionOffset(m, n, 8)
                                + InstructionSize(m.instructions[n], 8)

C2_Witness ==
    /\ method = "encodeMessage"
    /\ pc = "done"
    /\ message.signers = <<K2, K1>>
    /\ Len(message.instructions) = 2
    /\ message.instructions[1].accounts = <<A2, A1>>
    /\ message.instructions[1] # message.instructions[2]

\* C3: the digest signMessage signs is the hash of the hexadecimal text of
\* the hash of the encoded message, never the hash of that first hash's raw
\* bytes.
C3_HexBridgedDigest ==
    (hashCalls # <<>> /\ method # "signTransaction") =>
        /\ Len(hashCalls) = 2
        /\ hashCalls[1] = encodeMessage(message)
        /\ LET first == sha256(hashCalls[1]) IN
            /\ Len(hashCalls[2]) = 2 * HASH_LEN
            /\ \A i \in 1..HASH_LEN :
                /\ hashCalls[2][2 * i - 1] = HexDigits[(first[i] \div 16) + 1]
                /\ hashCalls[2][2 * i] = HexDigits[(first[i] % 16) + 1]
            /\ hashCalls[2] # first
        /\ messageHash = sha256(hashCalls[2])
        /\ Len(messageHash) = HASH_LEN

C3_Witness ==
    /\ pc = "signing"
    /\ hashCalls # <<>>
    /\ \E i \in 1..Len(tasks) : tasks[i].state = "pending"

\* the two-stage digest of a message
TwoStageDigest(m) == sha256(utf8ToBytes(bytesToHex(sha256(encodeMessage(m)))))

\* C4: every signature signMessage produces with a valid key k verifies
\* against the two-stage digest of the encoded message under the x-only
\* public key of k.
C4_SignaturesVerify ==
    LET digest == TwoStageDigest(message) IN
    /\ \A i \in 1..Len(tasks) :
        (tasks[i].state = "fulfilled" /\ method # "signTransaction") =>
            /\ HexToBytesOk(tasks[i].value)
            /\ schnorrVerify(hexToBytes(tasks[i].value), digest,
                             XOnlyPublicKey(signers[i]))
    /\ status = "ok" /\ method = "signMessage" =>
        \A i \in 1..Len(signatures) :
            schnorrVerify(hexToBytes(signatures[i]), digest,
                          XOnlyPublicKey(signers[i]))

C4_Witness ==
    /\ method = "signMessage"
    /\ status = "ok"
    /\ Len(signatures) = 2
    /\ signers[1] # signers[2]

\* C5: signMessage fails with the invalid-private-key error whenever one of
\* the keys is not valid, wherever it stands in the list, and then returns no
\* signature list.
C5_InvalidKeyFails ==
    (method = "signMessage" /\ \E i \in 1..Len(signers) : ~isValidPrivateKey(signers[i]))
        => /\ status # "ok"
           /\ signatures = <<>>
           /\ pc = "signing" => ENABLED SignRejected
           /\ pc = "done" => status = "error" /\ error = "Invalid private key"

C5_Witness ==
    /\ method = "signMessage"
    /\ pc = "done"
    /\ status = "error"
    /\ Len(signers) = 2
    /\ isValidPrivateKey(signers[1])
    /\ ~isValidPrivateKey(signers[2])
    /\ tasks[1].state = "fulfilled"

\* C6: a successful signMessage returns as many signatures as keys, the one
\* at index i produced with keys[i].
C6_SignaturesInKeyOrder ==
    (method = "signMessage" /\ status = "ok") =>
        /\ Len(signatures) = Len(signers)
        /\ \A i \in 1..Len(signers) :
            /\ signatures[i] = bytesToHex(schnorrSign(messageHash, signers[i], nonces[i]))
            /\ schnorrVerify(hexToBytes(signatures[i]), messageHash,
                             XOnlyPublicKey(signers[i]))

C6_Witness ==
    /\ method = "signMessage"
    /\ status = "ok"
    /\ completed = <<2, 1>>
    /\ signers[1] # signers[2]

\* C7: a transaction whose number of signatures differs from its number of
\* signers is rejected by sendTransaction / sendTransactions with an error,
\* before any request is posted.
C7_MismatchRejected ==
    (/\ method \in {"sendTransaction", "sendTransactions"}
     /\ \E i \in 1..Len(transactions) :
            Len(transactions[i].signatures) # Len(transactions[i].message.signers))
        => /\ posts = <<>>
           /\ pc = "done" => status = "error"

\* C8: in createArchAccount, transferAccountOwnership, sendTransaction and
\* sendTransactions a failure of key validation, encoding, signing or wire
\* formatting, of the transaction or of any transaction of the batch, leaves
\* no request posted; a request is posted only once every transaction has
\* been serialized.
C8_CodecFailsBeforeTransmission ==
    /\ (status = "error" /\ failedAt \in {"key", "data", "sign", "wire"})
            => posts = <<>>
    /\ posts # <<>> =>
        /\ Len(posts) = 1
        /\ failedAt \in {"none", "rpc"}
        /\ \A i \in 1..Len(transactions) :
            \A j \in 1..Len(transactions[i].signatures) :
                HexToBytesOk(transactions[i].signatures[j])
        /\ Len(wire) = Len(transactions)
        /\ method \in {"createArchAccount", "transferAccountOwnership"}
            => \A i \in 1..Len(signers) :
                    isValidPrivateKey(signers[i]) /\ tasks[i].state = "fulfilled"

C8_Witness ==
    /\ method = "sendTransactions"
    /\ status = "error"
    /\ failedAt = "wire"
    /\ Len(transactions) = 2
    /\ WireOk(transactions[1])
    /\ ~WireOk(transactions[2])
    /\ posts = <<>>

C12_NoRetry ==
    /\ Len(posts) <= 1
    /\ pc = "posted" => Len(posts) = 1
    /\ (pc = "done" /\ response.kind # "none") =>
        /\ Len(posts) = 1
        /\ response.kind = "network" =>
            status = "error" /\ failedAt = "rpc" /\ error = response.message
        /\ ResponseHasError(response) => status = "error" /\ failedAt = "rpc"

C12_Witness ==
    /\ pc = "done"
    /\ method = "createArchAccount"
    /\ response.kind = "network"
    /\ status = "error"
    /\ Len(posts) = 1

\* C13: a successful sendTransactions on N transactions has posted exactly
\* one send_transactions request whose params are the N wire-formatted
\* transactions in input order, and returns exactly N ids.
C13_OneRequestNIds ==
    (method = "sendTransactions" /\ pc = "done" /\ status = "ok") =>
        /\ Len(posts) = 1
        /\ posts[1].method = "send_transactions"
        /\ posts[1].params = SerializeAll(transactions)
        /\ Len(result) = Len(transactions)

\* C14: every request posted has jsonrpc "2.0", an id, a method, and params
\* that is an array.
C14_ParamsIsArray ==
    \A i \in 1..Len(posts) :
        /\ DOMAIN posts[i] = {"jsonrpc", "id", "method", "params"}
        /\ posts[i].jsonrpc = "2.0"
        /\ posts[i].id \in Clock
        /\ ParamsTypeOf(posts[i].method) = "array"

\* C15: new Pubkey(bytes) fails for every input that is not 32 bytes long and
\* succeeds, holding exactly the bytes given, for every input of 32 bytes.
C15_PubkeyLength ==
    method = "Pubkey" =>
        IF Len(arg) = 32
        THEN status = "ok" /\ pubkey.bytes = arg
        ELSE /\ status = "error"
             /\ error = "Pubkey must be 32 bytes"
             /\ pubkey = NoPubkey

C15_Witness ==
    /\ method = "Pubkey"
    /\ Len(arg) = 33
    /\ status = "error"

\* C16: Pubkey.fromString(s) fails for every s that is not exactly 64 hex
\* digits: a character that is no hex digit, an odd number of digits, fewer
\* or more than 64, characters after 64 digits.
C16_FromStringRejects ==
    (method = "fromString" /\ ~(Len(arg) = 64 /\ HexToBytesOk(arg)))
        => status = "error"

\* C17: for every 32-byte public key p, Pubkey.fromString(p.toString())
\* succeeds and holds exactly the bytes of p.
C17_StringRoundTrip ==
    (method = "fromString" /\ pubkey # NoPubkey) =>
        /\ Len(pubkey.bytes) = 32
        /\ arg = str
        /\ status = "ok"
        /\ parsed.bytes = pubkey.bytes

C17_Witness ==
    /\ method = "fromString"
    /\ pubkey.bytes = Fill(PUBKEY_LEN, 255)
    /\ status = "ok"
    /\ parsed = pubkey

\* C18: every call of Pubkey.systemProgram() returns 32 bytes, the first 31
\* of them 0 and the last 1, whatever calls came before and whatever was
\* written into the values they returned.
C18_SystemProgramConstant ==
    method = "systemProgram" =>
        /\ status = "ok"
        /\ Len(pubkey.bytes) = 32
        /\ \A i \in 1..31 : pubkey.bytes[i] = 0
        /\ pubkey.bytes[32] = 1

C18_Witness ==
    /\ method = "systemProgram"
    /\ Len(heap) = 2
    /\ heap[1][PUBKEY_LEN] = 9
    /\ heap[1][1] = 9

SwapInstructions(m, i, j) ==
    [m EXCEPT !.instructions =
        [k \in 1..Len(m.instructions) |->
            IF k = i THEN m.instructions[j]
            ELSE IF k = j THEN m.instructions[i]
            ELSE m.instructions[k]]]

\* C20: exchanging two unequal instructions of a message gives a message
\* with a different encoding, and a different input to the first hash.
C20_ReorderChangesEncoding ==
    encodedMessage # <<>> =>
        \A i, j \in 1..Len(message.instructions) :
            (i < j /\ message.instructions[i] # message.instructions[j]) =>
                /\ encodeMessage(SwapInstructions(message, i, j)) # encodedMessage
                /\ hashCalls # <<>> =>
                    HashCalls(encodeMessage(SwapInstructions(message, i, j)))[1]
                        # hashCalls[1]

C20_Witness ==
    /\ method = "signMessage"
    /\ pc = "signing"
    /\ message = M2


\* C21: serializeInstruction returns the program id (32 bytes), the account
\* count in 1 byte, each account as pubkey, is_signer and is_writable bytes,
\* the data length in 8 little-endian bytes, and then the data.
C21_SerializeInstructionLayout ==
    (method = "serializeInstruction" /\ pc = "done") =>
        LET ins == instructionIn
            out == serialized
            n == Len(ins.accounts)
            lengthAt == PUBKEY_LEN + 1 + (PUBKEY_LEN + 2) * n
        IN  /\ Len(out) = lengthAt + 8 + Len(ins.data)
            /\ SubSeq(out, 1, PUBKEY_LEN) = ins.program_id.bytes
            /\ out[PUBKEY_LEN + 1] = n
            /\ \A a \in 1..n :
                LET at == PUBKEY_LEN + 1 + (PUBKEY_LEN + 2) * (a - 1) IN
                /\ SubSeq(out, at + 1, at + PUBKEY_LEN) = ins.accounts[a].pubkey.bytes
                /\ out[at + PUBKEY_LEN + 1] = (IF ins.accounts[a].is_signer THEN 1 ELSE 0)
                /\ out[at + PUBKEY_LEN + 2] = (IF ins.accounts[a].is_writable THEN 1 ELSE 0)
            /\ \A k \in 0..7 : out[lengthAt + 1 + k] = LittleEndianByte(Len(ins.data), k)
            /\ SubSeq(out, lengthAt + 9, Len(out)) = ins.data

C21_Witness ==
    /\ method = "serializeInstruction"
    /\ pc = "done"
    /\ Len(instructionIn.accounts) = 2
    /\ instructionIn.accounts[1].is_signer # instructionIn.accounts[1].is_writable
    /\ Len(instructionIn.data) > 255
    /\ serialized # <<>>

\* serializeInstruction applied to each instruction in turn, the results joined
RECURSIVE ComposeSerializeInstruction(_, _)
ComposeSerializeInstruction(instructions, i) ==
    IF i > Len(instructions) THEN <<>>
    ELSE serializeInstruction(instructions[i])
         \o ComposeSerializeInstruction(instructions, i + 1)

\* C22: there is exactly one canonical encoding: for every message,
\* encodeMessage, serializeMessage and the composition of
\* serializeInstruction over the instructions produce the same bytes.
C22_OneCanonicalEncoding ==
    /\ (method = "serializeMessage" /\ pc = "done") =>
            serialized = encodeMessage(message)
    /\ (method \in {"serializeMessage", "encodeMessage"} /\ pc = "done") =>
            encodeMessage(message)
                = <<Len(message.signers)>>
                  \o EncodeSignersFrom(message.signers, 1)
                  \o <<Len(message.instructions)>>
                  \o ComposeSerializeInstruction(message.instructions, 1)

\* C23: signTransaction and signMessage sign the same digest of a message
\* and return signature strings in the same encoding, one that
\* serializeTransaction can decode.
C23_SameDigestAndEncoding ==
    method = "signTransaction" =>
        /\ hashCalls # <<>> => messageHash = TwoStageDigest(message)
        /\ \A i \in 1..Len(tasks) :
                tasks[i].state = "fulfilled" =>
                    tasks[i].value
                        = SignatureText(schnorrSign(messageHash, signers[i], nonces[i]))
        /\ status = "ok" => WireOk(RuntimeTransaction(signatures, message))

\* C24: every element of what encodeMessage returns is a byte, 0..255, and
\* each count occupies exactly one byte equal to the length of its list, for
\* lists longer than 255 and data elements outside 0..255 as well.
C24_EveryElementIsAByte ==
    (method = "encodeMessage" /\ pc = "done") =>
        /\ \A k \in 1..Len(encodedMessage) : encodedMessage[k] \in 0..255
        /\ encodedMessage[1] = Len(message.signers)
        /\ encodedMessage[2 + PUBKEY_LEN * Len(message.signers)]
                = Len(message.instructions)
        /\ \A i \in 1..Len(message.instructions) :
                encodedMessage[InstructionOffset(message, i, 8) + PUBKEY_LEN + 1]
                    = Len(message.instructions[i].accounts)

\* the keys signed one after another over one digest, each with its nonce
RECURSIVE SignSequentially(_, _, _, _)
SignSequentially(digest, keys, ns, i) ==
    IF i > Len(keys) THEN <<>>
    ELSE <<bytesToHex(schnorrSign(digest, keys[i], ns[i]))>>
         \o SignSequentially(digest, keys, ns, i + 1)

\* C26: signMessage signs the keys as concurrent tasks over one shared
\* digest; in whatever order the tasks complete, the returned list is the one
\* sequential signing gives: index i holds the signature by keys[i], and all
\* signatures are over the same digest.
C26_AnyCompletionOrder ==
    method = "signMessage" =>
        /\ messageHash = MessageHash(encodedMessage)
        /\ \A i \in 1..Len(completed) : tasks[completed[i]].state = "fulfilled"
        /\ \A i \in 1..Len(tasks) :
                tasks[i].state = "fulfilled" =>
                    /\ \E j \in 1..Len(completed) : completed[j] = i
                    /\ <<tasks[i].value>>
                            = SignSequentially(messageHash, <<signers[i]>>, <<nonces[i]>>, 1)
        /\ status = "ok" =>
                signatures = SignSequentially(messageHash, signers, nonces, 1)

C26_Witness ==
    /\ method = "signMessage"
    /\ status = "ok"
    /\ message = M2
    /\ completed = <<2, 1>>
    /\ signers = <<KeyB, KeyA>>
    /\ nonces = <<1, 2>>

SingleSystemInstruction(m, key) ==
    LET pub == Pubkey(XOnlyPublicKey(key)) IN
    /\ m.signers = <<pub>>
    /\ Len(m.instructions) = 1
    /\ m.instructions[1].program_id = systemProgram
    /\ m.instructions[1].accounts
            = <<[pubkey |-> pub, is_signer |-> TRUE, is_writable |-> TRUE]>>

\* C28: createArchAccount builds a single instruction targeting the system
\* program with exactly one account (the x-only public key of the private
\* key, signer and writable) and data of exactly 37 bytes: byte 0 is 0, bytes
\* 1..32 are the 32 bytes of txid, bytes 33..36 are vout as a 4-byte
\* little-endian unsigned integer (vout modulo 2^32); the message's only
\* signer is that same public key.
C28_CreateAccountInstruction ==
    (method = "createArchAccount" /\ message # NoMessage) =>
        LET data == message.instructions[1].data IN
        /\ Len(signers) = 1
        /\ SingleSystemInstruction(message, signers[1])
        /\ Len(data) = 37
        /\ data[1] = 0
        /\ HexToBytesOk(callArgs.txid)
        /\ Len(hexToBytes(callArgs.txid)) = 32 =>
                SubSeq(data, 2, 33) = hexToBytes(callArgs.txid)
        /\ \A k \in 0..3 : data[34 + k] = LittleEndianByte(callArgs.vout, k)
        /\ \A k \in 1..37 : data[k] \in 0..255

C28_Witness ==
    /\ method = "createArchAccount"
    /\ status = "ok"
    /\ callArgs.txid = HexOfBytes(32)
    /\ callArgs.vout = -1
    /\ SubSeq(message.instructions[1].data, 34, 37) = <<255, 255, 255, 255>>
    /\ message.instructions[1].data[2] = 26
    /\ posts # <<>>

\* C29: transferAccountOwnership builds a single instruction targeting the
\* system program with exactly one account (the x-only public key of the
\* private key, signer and writable) and data of exactly 33 bytes: byte 0 is
\* 3 and bytes 1..32 are the 32 bytes of the program public key; it fails,
\* sending nothing, when programPubkeyHex does not decode to exactly 32 bytes.
C29_TransferOwnershipInstruction ==
    method = "transferAccountOwnership" =>
        LET hex == callArgs.programPubkeyHex
            decodes == HexToBytesOk(hex) /\ Len(hexToBytes(hex)) = 32
        IN  /\ message # NoMessage =>
                LET data == message.instructions[1].data IN
                /\ Len(signers) = 1
                /\ SingleSystemInstruction(message, signers[1])
                /\ Len(data) = 33
                /\ data[1] = 3
                /\ decodes
                /\ SubSeq(data, 2, 33) = hexToBytes(hex)
            /\ ~decodes =>
                /\ pc = "done"
                /\ status = "error"
                /\ message = NoMessage
                /\ tasks = <<>>
                /\ posts = <<>>

C29_Witness ==
    /\ method = "transferAccountOwnership"
    /\ status = "ok"
    /\ callArgs.programPubkeyHex = HexOfBytes(32)
    /\ message.instructions[1].data[2] = 26
    /\ posts # <<>>


\* C30: in every successful run of createArchAccount or
\* transferAccountOwnership the steps happen in the order encode, digest,
\* sign, assemble, wire-format, transmit: the single send_transaction request
\* is issued only after the signature has been produced, the transmitted
\* transaction has version 0 and exactly one signature and one signer, that
\* signature was made with the private key whose public key is the signer,
\* and the method returns the result of that one request.
C30_StepsInOrder ==
    method \in {"createArchAccount", "transferAccountOwnership"} =>
        /\ pc = "signing" => posts = <<>> /\ wire = <<>> /\ transactions = <<>>
        /\ message # NoMessage =>
            /\ encodedMessage = encodeMessage(message)
            /\ hashCalls[1] = encodedMessage
            /\ messageHash = TwoStageDigest(message)
        /\ posts # <<>> =>
            /\ Len(posts) = 1
            /\ posts[1].method = "send_transaction"
            /\ tasks[1].state = "fulfilled"
            /\ signatures
                    = <<bytesToHex(schnorrSign(messageHash, signers[1], nonces[1]))>>
            /\ transactions = <<[version |-> 0, signatures |-> signatures,
                                 message |-> message]>>
            /\ wire = <<serializeTransaction(transactions[1])>>
            /\ posts[1].params = wire[1]
            /\ posts[1].params.version = 0
            /\ Len(posts[1].params.signatures) = 1
            /\ Len(posts[1].params.message.signers) = 1
            /\ posts[1].params.message.signers[1] = XOnlyPublicKey(signers[1])
            /\ schnorrVerify(posts[1].params.signatures[1], messageHash,
                             posts[1].params.message.signers[1])
        /\ status = "ok" =>
            /\ pc = "done"
            /\ Len(posts) = 1
            /\ response.kind # "network"
            /\ result = response.result

C30_Witness ==
    /\ method = "transferAccountOwnership"
    /\ pc = "done"
    /\ status = "ok"
    /\ signers = <<KeyB>>
    /\ Len(posts) = 1
    /\ result = response.result
    /\ result # ""

=============================================================================
